---- MODULE Spec2Model ----
(***************************************************************************)
(* A model of advanced-vector/vector.h: RawMemory<T>, the owner of a block *)
(* of raw storage, and Vector<T>, which keeps the lifetime of the objects  *)
(* in that block.  The heap is a map from block addresses to the slots of  *)
(* the block; a slot is Raw (no object lives there) or holds the value of  *)
(* a live object.  Every public method of Vector is one action; what the   *)
(* method does to the object lifetimes (constructions on a live slot,      *)
(* destructions of a slot that holds no object, live objects released with *)
(* their block) is recorded in `last`, the record of the last call.        *)
(***************************************************************************)
EXTENDS Integers, Sequences, FiniteSets, TLC

\* ---------------------------------------------------------------- bounds
MaxCap == 3          \* one Vector: no block larger than this is requested
PairCap == 2         \* two Vectors: no block larger than this is requested
MaxVal == 1          \* element values passed by the caller: 0..MaxVal
OwnCap == 4          \* one Vector: Insert of the Vector's own element requests no
                     \* block larger than this

\* ------------------------------------------------------------- constants
NullBuf == 0         \* buffer_ = nullptr
Default == 0         \* T(): the value of a value-initialised element
Raw == -1            \* a slot of raw storage: no object lives there
Unspecified == -2    \* a live object whose value is unspecified (moved-from,
                     \* or copied out of raw storage)

Values == 0 .. MaxVal
Instances == {"A", "B"}
Blocks == 1 .. (Cardinality(Instances) + 1)

VARIABLES
    heap,        \* heap[b]: the slots of block b, <<>> when b is not allocated
    vec,         \* vec[x]: the Vector object x: alive, data_ (buffer_, capacity_), size_
    move_path,   \* the if-constexpr condition of the element type T:
                 \* is_nothrow_move_constructible_v<T> || !is_copy_constructible_v<T>
    fault,       \* the process was ended by undefined behaviour
    pushed,      \* history: the values pushed onto A since it was empty, while nothing
                 \* but PushBack has been called on it
    last,        \* history: the last call, its outcome and its lifetime accounting
    raw          \* raw[x]: the RawMemory object x of a program that uses RawMemory
                 \* itself: alive, buffer_, capacity_

vars == <<heap, vec, move_path, fault, pushed, last, raw>>

\* ------------------------------------------------- the machine of one call
\* The methods are sequential code: each is a function from machine to machine,
\* where a machine is the heap, the Vector objects and the accounting of the call.
Machine(h, v) ==
    [heap |-> h, vec |-> v,
     exc |-> "none",        \* the exception in flight: none, bad_alloc, throw
     ub |-> FALSE,          \* undefined behaviour happened
     ctorOnLive |-> FALSE,  \* an object was constructed on a live object
     dtorOnRaw |-> FALSE,   \* a destructor ran on a slot that holds no object
     dtor |-> {},           \* <<block, index>> of every destructor call
     leak |-> 0,            \* live objects in blocks at their release
     freed |-> {},          \* blocks released
     calls |-> <<>>,        \* Emplace / EmplaceBack entered, in order
     ret |-> -1]            \* index of the returned iterator / reference

InBlock(m, b, k) == b # NullBuf /\ k >= 0 /\ k < Len(m.heap[b])

\* *(buf + k), read
Val(m, b, k) ==
    IF InBlock(m, b, k) /\ m.heap[b][k + 1] # Raw THEN m.heap[b][k + 1] ELSE Unspecified

IsObject(m, b, k) == InBlock(m, b, k) /\ m.heap[b][k + 1] # Raw

\* Reading a slot that holds no object is undefined.
Touch(m, b, k) == IF IsObject(m, b, k) THEN m ELSE [m EXCEPT !.ub = TRUE]

\* The least free address.
NewBlock(h) == CHOOSE b \in Blocks : h[b] = <<>> /\ \A c \in Blocks : c < b => h[c] # <<>>

\* RawMemory::Allocate(n), n # 0: n raw slots at address b.
Allocate(m, b, n) == [m EXCEPT !.heap[b] = [k \in 1 .. n |-> Raw]]

\* RawMemory::Deallocate: operator delete; no destructor runs.
Deallocate(m, b) ==
    IF b = NullBuf THEN m
    ELSE [m EXCEPT !.leak = @ + Cardinality({k \in 1 .. Len(m.heap[b]) : m.heap[b][k] # Raw}),
                   !.freed = @ \cup {b},
                   !.heap[b] = <<>>]

\* new (buf + k) T(v)
Construct(m, b, k, v) ==
    IF ~InBlock(m, b, k) THEN [m EXCEPT !.ub = TRUE]
    ELSE [m EXCEPT !.heap[b][k + 1] = v,
                   !.ctorOnLive = @ \/ (m.heap[b][k + 1] # Raw)]

\* std::destroy_at(buf + k)
DestroyAt(m, b, k) ==
    IF IsObject(m, b, k)
    THEN [m EXCEPT !.heap[b][k + 1] = Raw, !.dtor = @ \cup {<<b, k>>}]
    ELSE [m EXCEPT !.ub = TRUE, !.dtorOnRaw = TRUE, !.dtor = @ \cup {<<b, k>>}]

\* buf[k] = v (assignment to the object in slot k)
Assign(m, b, k, v) ==
    IF IsObject(m, b, k) THEN [m EXCEPT !.heap[b][k + 1] = v]
    ELSE IF InBlock(m, b, k) THEN [m EXCEPT !.heap[b][k + 1] = v, !.ub = TRUE]
    ELSE [m EXCEPT !.ub = TRUE]

\* The source of a move is left valid but unspecified.
MovedOut(m, b, k) ==
    IF IsObject(m, b, k) THEN [m EXCEPT !.heap[b][k + 1] = Unspecified] ELSE m

\* new (db + dk) T(std::move(sb[sk]))
MoveConstruct(m, sb, sk, db, dk) ==
    MovedOut(Construct(Touch(m, sb, sk), db, dk, Val(m, sb, sk)), sb, sk)

\* db[dk] = std::move(sb[sk])
MoveAssign(m, sb, sk, db, dk) ==
    MovedOut(Assign(Touch(m, sb, sk), db, dk, Val(m, sb, sk)), sb, sk)

RECURSIVE DestroyN(_, _, _, _)
\* std::destroy_n(buf + k, n)
DestroyN(m, b, k, n) ==
    IF n <= 0 THEN m ELSE DestroyN(DestroyAt(m, b, k), b, k + 1, n - 1)

RECURSIVE UninitializedMoveFrom(_, _, _, _, _, _, _)
UninitializedMoveFrom(m, sb, sk, n, db, dk, j) ==
    IF j >= n THEN m
    ELSE UninitializedMoveFrom(MoveConstruct(m, sb, sk + j, db, dk + j), sb, sk, n, db, dk, j + 1)

\* std::uninitialized_move_n(sb + sk, n, db + dk); the move constructor does not throw
UninitializedMoveN(m, sb, sk, n, db, dk) == UninitializedMoveFrom(m, sb, sk, n, db, dk, 0)

RECURSIVE UninitializedCopyFrom(_, _, _, _, _, _, _, _)
UninitializedCopyFrom(m, sb, sk, n, db, dk, thr, j) ==
    IF j >= n THEN m
    ELSE IF thr = j + 1
         THEN [DestroyN(m, db, dk, j) EXCEPT !.exc = "throw"]
         ELSE UninitializedCopyFrom(Construct(Touch(m, sb, sk + j), db, dk + j, Val(m, sb, sk + j)),
                                    sb, sk, n, db, dk, thr, j + 1)

\* std::uninitialized_copy_n(sb + sk, n, db + dk).  thr is the ordinal of the copy
\* construction that throws (0: none); the objects constructed so far are destroyed
\* and the exception is rethrown.
UninitializedCopyN(m, sb, sk, n, db, dk, thr) == UninitializedCopyFrom(m, sb, sk, n, db, dk, thr, 0)

RECURSIVE ValueConstructN(_, _, _, _)
\* std::uninitialized_value_construct_n(buf + k, n)
ValueConstructN(m, b, k, n) ==
    IF n <= 0 THEN m ELSE ValueConstructN(Construct(m, b, k, Default), b, k + 1, n - 1)

RECURSIVE CopyN(_, _, _, _, _, _)
\* std::copy_n(sb + sk, n, db + dk): copy assignment, front to back
CopyN(m, sb, sk, n, db, dk) ==
    IF n <= 0 THEN m
    ELSE CopyN(Assign(Touch(m, sb, sk), db, dk, Val(m, sb, sk)), sb, sk + 1, n - 1, db, dk + 1)

RECURSIVE MoveForward(_, _, _, _, _)
\* std::move(b + first, b + lastx, b + d): move assignment, front to back
MoveForward(m, b, first, lastx, d) ==
    IF first >= lastx THEN m
    ELSE MoveForward(MoveAssign(m, b, first, b, d), b, first + 1, lastx, d + 1)

RECURSIVE MoveBackward(_, _, _, _, _)
\* std::move_backward(b + first, b + lastx, b + dlast): move assignment, back to front
MoveBackward(m, b, first, lastx, dlast) ==
    IF first >= lastx THEN m
    ELSE MoveBackward(MoveAssign(m, b, lastx - 1, b, dlast - 1), b, first, lastx - 1, dlast - 1)

\* ------------------------------------------------------------ RawMemory
EmptyMemory == [buf |-> NullBuf, cap |-> 0]

\* Vector::Capacity()
Capacity(m, x) == m.vec[x].data.cap

\* Vector::Size()
Size(m, x) == m.vec[x].size

Buf(m, x) == m.vec[x].data.buf

\* ------------------------------------------------------------ Vector
\* Mutant of Reserve: the last element is not transferred to the new block.
ReserveDropsLast(m, x, new_capacity, oom, thr) ==
    IF new_capacity <= Capacity(m, x) THEN m
    ELSE IF oom THEN [m EXCEPT !.exc = "bad_alloc"]
    ELSE LET nb == NewBlock(m.heap)
             old == Buf(m, x)
             n == Size(m, x)
             m1 == Allocate(m, nb, new_capacity)
             m2 == IF move_path THEN UninitializedMoveN(m1, old, 0, n - 1, nb, 0)
                   ELSE UninitializedCopyN(m1, old, 0, n - 1, nb, 0, thr)
         IN  IF m2.exc # "none" THEN Deallocate(m2, nb)
             ELSE LET m3 == [m2 EXCEPT !.vec[x].data = [buf |-> nb, cap |-> new_capacity]]
                      m4 == DestroyN(m3, old, 0, n)
                  IN  Deallocate(m4, old)

\* Mutant of Reserve: the old elements are destroyed before the new block is requested.
ReserveDestroysFirst(m, x, new_capacity, oom, thr) ==
    IF new_capacity <= Capacity(m, x) THEN m
    ELSE LET d == [DestroyN(m, Buf(m, x), 0, Size(m, x)) EXCEPT !.vec[x].size = 0]
         IN  IF oom THEN [d EXCEPT !.exc = "bad_alloc"]
             ELSE LET nb == NewBlock(d.heap)
                      m1 == Allocate(d, nb, new_capacity)
                      m3 == [m1 EXCEPT !.vec[x].data = [buf |-> nb, cap |-> new_capacity]]
                  IN  Deallocate(m3, Buf(m, x))

\* Mutant of Reserve: a request for exactly the present capacity reallocates.
ReserveStrict(m, x, new_capacity, oom, thr) ==
    IF new_capacity < Capacity(m, x) THEN m
    ELSE IF oom THEN [m EXCEPT !.exc = "bad_alloc"]
    ELSE LET nb == NewBlock(m.heap)
             old == Buf(m, x)
             n == Size(m, x)
             m1 == Allocate(m, nb, new_capacity)
             m2 == IF move_path THEN UninitializedMoveN(m1, old, 0, n, nb, 0)
                   ELSE UninitializedCopyN(m1, old, 0, n, nb, 0, thr)
         IN  IF m2.exc # "none" THEN Deallocate(m2, nb)
             ELSE LET m3 == [m2 EXCEPT !.vec[x].data = [buf |-> nb, cap |-> new_capacity]]
                      m4 == DestroyN(m3, old, 0, n)
                  IN  Deallocate(m4, old)

\* Vector::Reserve(new_capacity)
Reserve(m, x, new_capacity, oom, thr) ==
    IF new_capacity <= Capacity(m, x) THEN m
    ELSE IF oom THEN [m EXCEPT !.exc = "bad_alloc"]
    ELSE LET nb == NewBlock(m.heap)
             old == Buf(m, x)
             n == Size(m, x)
             m1 == Allocate(m, nb, new_capacity)
             m2 == IF move_path THEN UninitializedMoveN(m1, old, 0, n, nb, 0)
                   ELSE UninitializedCopyN(m1, old, 0, n, nb, 0, thr)
         IN  IF m2.exc # "none" THEN Deallocate(m2, nb)
             ELSE LET m3 == [m2 EXCEPT !.vec[x].data = [buf |-> nb, cap |-> new_capacity]]
                      m4 == DestroyN(m3, old, 0, n)
                  IN  Deallocate(m4, old)

\* Mutants of GrowthCapacity: no growth; growth by one slot.
GrowthCapacitySame(size) == IF size > 0 THEN size ELSE 1

GrowthCapacityPlusOne(size) == size + 1

\* Emplace, lines 183-186: the capacity requested when the block is full
GrowthCapacity(size) == IF size > 0 THEN size * 2 ELSE 1

\* Emplace, line 196: where the copy path puts the elements after pos
CopyTailDest(dist) == 0

\* Emplace, line 193: where the move path puts the elements after pos
MoveTailDest(dist) == dist + 1

\* The argument of Emplace / EmplaceBack / Insert is a value of T, or Ref(j): a
\* reference to the element j of the Vector itself (v.Insert(pos, v[j])).  T(args...)
\* reads a reference when it runs: Arg is the value it reads in the machine m.
Ref(j) == MaxVal + 1 + j

IsRef(v) == v > MaxVal

Arg(m, b, v) == IF IsRef(v) THEN Val(m, b, v - Ref(0)) ELSE v

TouchArg(m, b, v) == IF IsRef(v) THEN Touch(m, b, v - Ref(0)) ELSE m

RECURSIVE Emplace(_, _, _, _, _, _)
RECURSIVE EmplaceBack(_, _, _, _, _)

\* Mutant of Emplace: appending without growth is not handed to EmplaceBack.
EmplaceNoDelegation(m0, x, dist, v, oom, thr) ==
    LET m == [m0 EXCEPT !.calls = Append(@, "Emplace")]
        n == Size(m, x)
        old == Buf(m, x)
    IN  IF n = Capacity(m, x)
        THEN IF oom THEN [m EXCEPT !.exc = "bad_alloc"]
             ELSE LET new_size == GrowthCapacity(n)
                      nb == NewBlock(m.heap)
                      m1 == Allocate(m, nb, new_size)
                      m2 == Construct(TouchArg(m1, old, v), nb, dist, Arg(m1, old, v))
                      m3 == IF move_path
                            THEN UninitializedMoveN(
                                     UninitializedMoveN(m2, old, 0, dist, nb, 0),
                                     old, dist, n - dist, nb, MoveTailDest(dist))
                            ELSE LET c == UninitializedCopyN(m2, old, 0, dist, nb, 0, thr)
                                 IN  IF c.exc # "none" THEN c
                                     ELSE UninitializedCopyN(c, old, dist, n - dist, nb,
                                              CopyTailDest(dist),
                                              IF thr > dist THEN thr - dist ELSE 0)
                  IN  IF m3.exc # "none" THEN Deallocate(m3, nb)
                      ELSE LET m4 == [m3 EXCEPT !.vec[x].data = [buf |-> nb, cap |-> new_size]]
                               m5 == DestroyN(m4, old, 0, n)
                               m6 == Deallocate(m5, old)
                           IN  [m6 EXCEPT !.vec[x].size = n + 1, !.ret = dist]
        ELSE LET temp == Arg(m, old, v)
                 m1 == MoveConstruct(TouchArg(m, old, v), old, n - 1, old, n)
                 m2 == MoveBackward(m1, old, dist, n - 1, n)
                 m3 == Assign(m2, old, dist, temp)
             IN  [m3 EXCEPT !.vec[x].size = n + 1, !.ret = dist]

\* Vector::Emplace(begin() + dist, v)
Emplace(m0, x, dist, v, oom, thr) ==
    LET m == [m0 EXCEPT !.calls = Append(@, "Emplace")]
        n == Size(m, x)
        old == Buf(m, x)
    IN  IF n = Capacity(m, x)
        THEN IF oom THEN [m EXCEPT !.exc = "bad_alloc"]
             ELSE LET new_size == GrowthCapacity(n)
                      nb == NewBlock(m.heap)
                      m1 == Allocate(m, nb, new_size)
                      m2 == Construct(TouchArg(m1, old, v), nb, dist, Arg(m1, old, v))
                      m3 == IF move_path
                            THEN UninitializedMoveN(
                                     UninitializedMoveN(m2, old, 0, dist, nb, 0),
                                     old, dist, n - dist, nb, MoveTailDest(dist))
                            ELSE LET c == UninitializedCopyN(m2, old, 0, dist, nb, 0, thr)
                                 IN  IF c.exc # "none" THEN c
                                     ELSE UninitializedCopyN(c, old, dist, n - dist, nb,
                                              CopyTailDest(dist),
                                              IF thr > dist THEN thr - dist ELSE 0)
                  IN  IF m3.exc # "none" THEN Deallocate(m3, nb)
                      ELSE LET m4 == [m3 EXCEPT !.vec[x].data = [buf |-> nb, cap |-> new_size]]
                               m5 == DestroyN(m4, old, 0, n)
                               m6 == Deallocate(m5, old)
                           IN  [m6 EXCEPT !.vec[x].size = n + 1, !.ret = dist]
        ELSE IF dist = n
        THEN EmplaceBack(m, x, v, oom, thr)
        ELSE LET temp == Arg(m, old, v)
                 m1 == MoveConstruct(TouchArg(m, old, v), old, n - 1, old, n)
                 m2 == MoveBackward(m1, old, dist, n - 1, n)
                 m3 == Assign(m2, old, dist, temp)
             IN  [m3 EXCEPT !.vec[x].size = n + 1, !.ret = dist]

\* Mutant of EmplaceBack: a full Vector grows by Reserve, without a call of Emplace.
EmplaceBackReserves(m0, x, v, oom, thr) ==
    LET m == [m0 EXCEPT !.calls = Append(@, "EmplaceBack")]
        n == Size(m, x)
        r == IF n = Capacity(m, x) THEN Reserve(m, x, GrowthCapacity(n), oom, thr) ELSE m
    IN  IF r.exc # "none" THEN r
        ELSE LET m1 == Construct(r, Buf(r, x), n, v)
                 m2 == [m1 EXCEPT !.vec[x].size = n + 1]
             IN  [m2 EXCEPT !.ret = Size(m2, x) - 1]

\* Mutant of EmplaceBack: without growth the element is constructed at begin().
EmplaceBackAtBegin(m0, x, v, oom, thr) ==
    LET m == [m0 EXCEPT !.calls = Append(@, "EmplaceBack")]
        n == Size(m, x)
    IN  IF n = Capacity(m, x)
        THEN LET e == Emplace(m, x, n, v, oom, thr)
             IN  IF e.exc # "none" THEN e ELSE [e EXCEPT !.ret = Size(e, x) - 1]
        ELSE LET m1 == Construct(TouchArg(m, Buf(m, x), v), Buf(m, x), 0, Arg(m, Buf(m, x), v))
                 m2 == [m1 EXCEPT !.vec[x].size = n + 1]
             IN  [m2 EXCEPT !.ret = Size(m2, x) - 1]

\* Vector::EmplaceBack(v)
EmplaceBack(m0, x, v, oom, thr) ==
    LET m == [m0 EXCEPT !.calls = Append(@, "EmplaceBack")]
        n == Size(m, x)
    IN  IF n = Capacity(m, x)
        THEN LET e == Emplace(m, x, n, v, oom, thr)
             IN  IF e.exc # "none" THEN e ELSE [e EXCEPT !.ret = Size(e, x) - 1]
        ELSE LET m1 == Construct(TouchArg(m, Buf(m, x), v), Buf(m, x), n, Arg(m, Buf(m, x), v))
                 m2 == [m1 EXCEPT !.vec[x].size = n + 1]
             IN  [m2 EXCEPT !.ret = Size(m2, x) - 1]

\* Vector::PushBack(value)
PushBack(m, x, v, oom, thr) == EmplaceBack(m, x, v, oom, thr)

\* Vector::Insert(pos, value)
Insert(m, x, dist, v, oom, thr) == Emplace(m, x, dist, v, oom, thr)

\* Mutant of Erase: the elements after pos are not shifted.
EraseNoShift(m, x, index) ==
    LET b == Buf(m, x)
        n == Size(m, x)
        m2 == DestroyAt(m, b, n)
    IN  [m2 EXCEPT !.vec[x].size = n - 1, !.ret = index]

\* Vector::Erase(begin() + index)
Erase(m, x, index) ==
    LET b == Buf(m, x)
        n == Size(m, x)
        m1 == MoveForward(m, b, index + 1, n, index)
        m2 == DestroyAt(m1, b, n)
    IN  [m2 EXCEPT !.vec[x].size = n - 1, !.ret = index]

\* Vector::PopBack()
PopBack(m, x) ==
    IF Size(m, x) > 0
    THEN [DestroyAt(m, Buf(m, x), Size(m, x) - 1) EXCEPT !.vec[x].size = Size(m, x) - 1]
    ELSE m

\* Mutant of Resize: growing constructs no element in the new slots.
ResizeNoConstruct(m, x, new_size, oom, thr) ==
    LET n == Size(m, x)
    IN  IF new_size = n THEN m
        ELSE IF n > new_size
        THEN [DestroyN(m, Buf(m, x), new_size, n - new_size) EXCEPT !.vec[x].size = new_size]
        ELSE LET r == Reserve(m, x, new_size, oom, thr)
             IN  IF r.exc # "none" THEN r
                 ELSE [r EXCEPT !.vec[x].size = new_size]

\* Vector::Resize(new_size)
Resize(m, x, new_size, oom, thr) ==
    LET n == Size(m, x)
    IN  IF new_size = n THEN m
        ELSE IF n > new_size
        THEN [DestroyN(m, Buf(m, x), new_size, n - new_size) EXCEPT !.vec[x].size = new_size]
        ELSE LET r == Reserve(m, x, new_size, oom, thr)
             IN  IF r.exc # "none" THEN r
                 ELSE [ValueConstructN(r, Buf(r, x), n, new_size - n)
                           EXCEPT !.vec[x].size = new_size]

\* RawMemory::Swap is the exchange of the two handles; RawMemory::operator=(RawMemory&&)
\* swaps unless the two handles hold the same buffer.  The pair is <<lhs, rhs>> after it.
RawMemoryMoveAssign(lhs, rhs) == IF rhs.buf # lhs.buf THEN <<rhs, lhs>> ELSE <<lhs, rhs>>

\* RawMemory::RawMemory(RawMemory&& other): Swap with a default-constructed handle.
RawMemoryMoveConstruct(other) == <<other, EmptyMemory>>

\* RawMemory::Swap(other): the pair <<this, other>> after it.
RawMemorySwap(this, other) == <<other, this>>

\* A RawMemory object out of its lifetime.
NoMemory == [alive |-> FALSE, data |-> EmptyMemory]

NoVector == [alive |-> FALSE, data |-> EmptyMemory, size |-> 0]

\* Vector::Vector()
DefaultVector(m, x) == [m EXCEPT !.vec[x] = [alive |-> TRUE, data |-> EmptyMemory, size |-> 0]]

\* Vector::Vector(size)
SizedVector(m, x, size, oom) ==
    IF size = 0 THEN DefaultVector(m, x)
    ELSE IF oom THEN [m EXCEPT !.exc = "bad_alloc"]
    ELSE LET nb == NewBlock(m.heap)
             m1 == Allocate(m, nb, size)
             m2 == ValueConstructN(m1, nb, 0, size)
         IN  [m2 EXCEPT !.vec[x] = [alive |-> TRUE, data |-> [buf |-> nb, cap |-> size],
                                    size |-> size]]

\* Mutant of the copy constructor: the new Vector takes the block of the other.
CopyVectorShallow(m, x, other, oom) ==
    LET n == Size(m, other)
    IN  IF n = 0 THEN DefaultVector(m, x)
        ELSE IF oom THEN [m EXCEPT !.exc = "bad_alloc"]
        ELSE [m EXCEPT !.vec[x] = [alive |-> TRUE, data |-> m.vec[other].data, size |-> n]]

\* Vector::Vector(const Vector& other), constructing x (x may be a temporary)
CopyVector(m, x, other, oom) ==
    LET n == Size(m, other)
    IN  IF n = 0 THEN DefaultVector(m, x)
        ELSE IF oom THEN [m EXCEPT !.exc = "bad_alloc"]
        ELSE LET nb == NewBlock(m.heap)
                 m1 == Allocate(m, nb, n)
                 m2 == UninitializedCopyN(m1, Buf(m, other), 0, n, nb, 0, 0)
             IN  [m2 EXCEPT !.vec[x] = [alive |-> TRUE, data |-> [buf |-> nb, cap |-> n],
                                        size |-> n]]

\* Mutant of the move constructor: the size of the source is not reset.
MoveVectorKeepsSize(m, x, other) ==
    LET d == RawMemoryMoveAssign(EmptyMemory, m.vec[other].data)
    IN  [m EXCEPT !.vec[x] = [alive |-> TRUE, data |-> d[1], size |-> Size(m, other)],
                  !.vec[other].data = d[2]]

\* Vector::Vector(Vector&& other)
MoveVector(m, x, other) ==
    LET d == RawMemoryMoveAssign(EmptyMemory, m.vec[other].data)
    IN  [m EXCEPT !.vec[x] = [alive |-> TRUE, data |-> d[1], size |-> Size(m, other)],
                  !.vec[other].data = d[2],
                  !.vec[other].size = 0]

\* Vector::Swap(other)
Swap(m, x, other) ==
    [m EXCEPT !.vec[x].data = m.vec[other].data, !.vec[x].size = m.vec[other].size,
              !.vec[other].data = m.vec[x].data, !.vec[other].size = m.vec[x].size]

\* Vector::~Vector(), then ~RawMemory() of data_
DestroyVector(m, x) ==
    LET m1 == DestroyN(m, Buf(m, x), 0, Size(m, x))
        m2 == Deallocate(m1, Buf(m, x))
    IN  [m2 EXCEPT !.vec[x] = NoVector]

\* Vector::CopyElementsFromVector(rhs)
CopyElementsFromVector(m, x, rhs) ==
    LET n == Size(m, x)
        rn == Size(m, rhs)
        copy_elem == IF rn < n THEN rn ELSE n
        m1 == CopyN(m, Buf(m, rhs), 0, copy_elem, Buf(m, x), 0)
        m2 == IF rn < n THEN DestroyN(m1, Buf(m, x), copy_elem, n - rn)
              ELSE UninitializedCopyN(m1, Buf(m, rhs), n, rn - n, Buf(m, x), copy_elem, 0)
    IN  [m2 EXCEPT !.vec[x].size = rn]

\* Mutant of copy assignment: the elements are always copied in place.
CopyAssignInPlace(m, x, rhs, tmp, oom) ==
    IF x = rhs THEN m
    ELSE CopyElementsFromVector(m, x, rhs)

\* Vector::operator=(const Vector& rhs); the temporary rhs_copy is built in tmp
CopyAssign(m, x, rhs, tmp, oom) ==
    IF x = rhs THEN m
    ELSE IF Size(m, rhs) > Capacity(m, x)
    THEN LET c == CopyVector(m, tmp, rhs, oom)
         IN  IF c.exc # "none" THEN c
             ELSE DestroyVector(Swap(c, x, tmp), tmp)
    ELSE CopyElementsFromVector(m, x, rhs)

\* Mutant of move assignment: lhs takes the handle of rhs and rhs keeps it.
MoveAssignVectorAliases(m, x, rhs) ==
    IF x # rhs
    THEN [m EXCEPT !.vec[x].data = m.vec[rhs].data, !.vec[x].size = m.vec[rhs].size]
    ELSE m

\* Vector::operator=(Vector&& rhs)
MoveAssignVector(m, x, rhs) == IF x # rhs THEN Swap(m, x, rhs) ELSE m

\* ------------------------------------------------------------ the calls
Now == Machine(heap, vec)

Alive(x) == vec[x].alive

\* begin() .. end() of x: the slots [0, size)
ContentsIn(h, v, x) == [k \in 1 .. v[x].size |-> Val(Machine(h, v), v[x].data.buf, k - 1)]

Contents(x) == ContentsIn(heap, vec, x)

NotPushed == [valid |-> FALSE, seq |-> <<>>]

NonePushed == [valid |-> TRUE, seq |-> <<>>]

\* A call on x other than PushBack ends the history of pushes onto A; the history
\* starts again whenever A is empty.
Taint(x) == IF x = "A" THEN NotPushed ELSE pushed

\* The record of a call: the method, its object, how it ended (ok, bad_alloc, throw,
\* fault), the arguments of a call that returned, and its lifetime accounting; dtor
\* holds the indices of the destructor calls in the block the object held when the
\* call began.
Outcome(op, x, idx, val, res, m) ==
    [op |-> op, inst |-> x, idx |-> idx, val |-> val, res |-> res,
     ret |-> (IF res = "ok" THEN m.ret ELSE -1),
     ctorOnLive |-> m.ctorOnLive, dtorOnRaw |-> m.dtorOnRaw, leak |-> m.leak, ub |-> m.ub, calls |-> m.calls,
     dtor |-> {k \in 0 .. MaxCap + 1 : <<vec[x].data.buf, k>> \in m.dtor}]

\* The record of a call on x of which the history keeps the object only (h = FALSE
\* below).
Unrecorded(x) == Outcome("-", x, -1, -1, "-", Machine(heap, vec))

\* The address operator new returns is arbitrary: a program state is the same state
\* under any renaming of its blocks.  InOrder(m) lists the allocated blocks of m: the
\* block of A, the block of B, then any other by address; Renamed(m) is the heap and
\* the Vectors of m with every block renamed to its place in that list.
InOrder(m) ==
    LET a == m.vec["A"].data.buf
        b == m.vec["B"].data.buf
    IN  (IF a # NullBuf THEN <<a>> ELSE <<>>) \o
        (IF b # NullBuf /\ b # a THEN <<b>> ELSE <<>>) \o
        SelectSeq([k \in 1 .. Cardinality(Blocks) |-> k],
                  LAMBDA c : m.heap[c] # <<>> /\ c # a /\ c # b)

Renamed(m) ==
    CHOOSE r \in
        {[heap |-> [k \in Blocks |-> IF k <= Len(src) THEN m.heap[src[k]] ELSE <<>>],
          vec |-> [y \in DOMAIN m.vec |->
                      [m.vec[y] EXCEPT !.data.buf =
                          IF @ = NullBuf THEN NullBuf
                          ELSE CHOOSE k \in 1 .. Len(src) : src[k] = @]]] :
            src \in {InOrder(m)}} : TRUE

\* The call returns or throws with the machine m; where the call had undefined
\* behaviour the build either goes on as it would for a trivial T, or the process ends.
\* Where the history keeps the whole record of the call (h) the blocks keep their
\* addresses, so that the state before and the state after can be compared block by
\* block; elsewhere the state after is taken up to the renaming above.
Call(op, x, idx, val, m0, np, h) ==
    /\ \E m \in {m0}, crash \in BOOLEAN :
          /\ crash => m.ub
          /\ IF crash
             THEN /\ fault' = TRUE
                  /\ last' = (IF h THEN Outcome(op, x, -1, -1, "fault", m) ELSE Unrecorded(x))
                  /\ pushed' = (IF h THEN pushed ELSE NotPushed)
                  /\ UNCHANGED <<heap, vec>>
             ELSE /\ fault' = FALSE
                  /\ \E r \in {IF h THEN [heap |-> m.heap, vec |-> m.vec] ELSE Renamed(m)} :
                         heap' = r.heap /\ vec' = r.vec
                  /\ pushed' = (IF ~h THEN NotPushed
                                 ELSE IF m.exc # "none" THEN pushed
                                 ELSE IF m.vec["A"].alive /\ m.vec["A"].size = 0 THEN NonePushed
                                 ELSE np)
                  /\ last' = (IF ~h THEN Unrecorded(x)
                               ELSE IF m.exc = "none" THEN Outcome(op, x, idx, val, "ok", m)
                               ELSE Outcome(op, x, -1, -1, m.exc, m))
    /\ UNCHANGED <<move_path, raw>>

\* What the environment may do to a call: the allocator can fail (oom) only where the
\* call requests a block, and the copy constructor of T can throw (thr: the ordinal of
\* the throwing copy) only in the copy-path transfer of a reallocation of x.
Env(x, allocates, oom, thr) ==
    /\ oom => allocates
    /\ thr # 0 => allocates /\ ~oom /\ ~move_path /\ thr <= vec[x].size

Full(x) == vec[x].size = vec[x].data.cap

\* The block is full and the next one would be larger than the model allows.
TooLarge(x, cap) == Full(x) /\ GrowthCapacity(vec[x].size) > cap

Other(x) == CHOOSE y \in Instances : y # x

CallDefaultConstructor(x, h) ==
    /\ ~fault /\ ~Alive(x)
    /\ Call("Vector", x, -1, -1, DefaultVector(Now, x), Taint(x), h)

CallSizedConstructor(x, size, oom, h) ==
    /\ ~fault /\ ~Alive(x)
    /\ Env(x, size # 0, oom, 0)
    /\ Call("VectorSized", x, size, -1, SizedVector(Now, x, size, oom), Taint(x), h)

CallCopyConstructor(x, other, oom) ==
    /\ ~fault /\ ~Alive(x) /\ Alive(other)
    /\ Env(x, vec[other].size # 0, oom, 0)
    /\ Call("VectorCopy", x, -1, -1, CopyVector(Now, x, other, oom), Taint(x), TRUE)

CallMoveConstructor(x, other) ==
    /\ ~fault /\ ~Alive(x) /\ Alive(other)
    /\ Call("VectorMove", x, -1, -1, MoveVector(Now, x, other), NotPushed, TRUE)

CallDestructor(x, h) ==
    /\ ~fault /\ Alive(x)
    /\ Call("~Vector", x, -1, -1, DestroyVector(Now, x), Taint(x), h)

CallCopyAssign(x, rhs, oom) ==
    /\ ~fault /\ Alive(x) /\ Alive(rhs)
    /\ Env(x, x # rhs /\ vec[rhs].size > vec[x].data.cap, oom, 0)
    /\ Call(IF rhs = x THEN "CopyAssignSelf" ELSE "CopyAssign", x, -1, -1,
            CopyAssign(Now, x, rhs, "tmp", oom), Taint(x), TRUE)

CallMoveAssign(x, rhs) ==
    /\ ~fault /\ Alive(x) /\ Alive(rhs)
    /\ Call("MoveAssign", x, -1, -1, MoveAssignVector(Now, x, rhs), NotPushed, TRUE)

CallSwap(x, other) ==
    /\ ~fault /\ Alive(x) /\ Alive(other)
    /\ Call("Swap", x, -1, -1, Swap(Now, x, other), NotPushed, TRUE)

CallReserve(x, n, oom, thr, h) ==
    /\ ~fault /\ Alive(x)
    /\ Env(x, n > vec[x].data.cap, oom, thr)
    /\ Call("Reserve", x, n, -1, Reserve(Now, x, n, oom, thr), Taint(x), h)

CallResize(x, n, oom, thr, h) ==
    /\ ~fault /\ Alive(x)
    /\ Env(x, n > vec[x].data.cap, oom, thr)
    /\ Call("Resize", x, n, -1, Resize(Now, x, n, oom, thr), Taint(x), h)

CallPushBack(x, v, oom, thr, cap, h) ==
    /\ ~fault /\ Alive(x) /\ ~TooLarge(x, cap)
    /\ Env(x, Full(x), oom, thr)
    /\ Call("PushBack", x, -1, v, PushBack(Now, x, v, oom, thr),
            IF x = "A" /\ pushed.valid THEN [pushed EXCEPT !.seq = Append(@, v)] ELSE pushed, h)

CallEmplaceBack(x, v, oom, thr, cap, h) ==
    /\ ~fault /\ Alive(x) /\ ~TooLarge(x, cap)
    /\ Env(x, Full(x), oom, thr)
    /\ Call("EmplaceBack", x, -1, v, EmplaceBack(Now, x, v, oom, thr), Taint(x), h)

CallEmplace(x, i, v, oom, thr, cap, h) ==
    /\ ~fault /\ Alive(x) /\ ~TooLarge(x, cap)
    /\ i <= vec[x].size
    /\ Env(x, Full(x), oom, thr)
    /\ Call("Emplace", x, i, v, Emplace(Now, x, i, v, oom, thr), Taint(x), h)

CallInsert(x, i, v, oom, thr, cap, h) ==
    /\ ~fault /\ Alive(x) /\ ~TooLarge(x, cap)
    /\ i <= vec[x].size
    /\ Env(x, Full(x), oom, thr)
    /\ Call("Insert", x, i, v, Insert(Now, x, i, v, oom, thr), Taint(x), h)

\* x.Insert(x.begin() + i, x[j])
CallInsertOwn(x, i, j, oom, thr, cap, h) ==
    /\ ~fault /\ Alive(x) /\ ~TooLarge(x, cap)
    /\ i <= vec[x].size /\ j < vec[x].size
    /\ Env(x, Full(x), oom, thr)
    /\ Call("InsertOwn", x, i, j, Insert(Now, x, i, Ref(j), oom, thr), Taint(x), h)

CallErase(x, i, h) ==
    /\ ~fault /\ Alive(x)
    /\ i < vec[x].size
    /\ Call("Erase", x, i, -1, Erase(Now, x, i), Taint(x), h)

CallPopBack(x, h) ==
    /\ ~fault /\ Alive(x)
    /\ Call("PopBack", x, -1, -1, PopBack(Now, x), Taint(x), h)

\* ------------------------------------------------------------ the system
Init ==
    /\ heap = [b \in Blocks |-> <<>>]
    /\ vec = [x \in Instances \cup {"tmp"} |->
                 IF x = "A" THEN [alive |-> TRUE, data |-> EmptyMemory, size |-> 0]
                 ELSE NoVector]
    /\ move_path \in BOOLEAN
    /\ fault = FALSE
    /\ pushed = NonePushed
    /\ last = Outcome("Vector", "A", -1, -1, "ok", Machine(heap, vec))
    /\ raw = [x \in Instances |-> NoMemory]

\* The calls on one Vector object x, with blocks of at most cap slots; h: the
\* history keeps the whole record of the call.
OnOne(x, cap, h) ==
    \/ CallDefaultConstructor(x, h)
    \/ \E n \in 0 .. cap, oom \in BOOLEAN : CallSizedConstructor(x, n, oom, h)
    \/ CallDestructor(x, h)
    \/ \E n \in 0 .. cap, oom \in BOOLEAN, thr \in 0 .. cap : CallReserve(x, n, oom, thr, h)
    \/ \E n \in 0 .. cap, oom \in BOOLEAN, thr \in 0 .. cap : CallResize(x, n, oom, thr, h)
    \/ \E v \in Values, oom \in BOOLEAN, thr \in 0 .. cap : CallPushBack(x, v, oom, thr, cap, h)
    \/ \E v \in Values, oom \in BOOLEAN, thr \in 0 .. cap : CallEmplaceBack(x, v, oom, thr, cap, h)
    \/ \E i \in 0 .. cap, v \in Values, oom \in BOOLEAN, thr \in 0 .. cap :
           CallEmplace(x, i, v, oom, thr, cap, h)
    \/ \E i \in 0 .. cap, v \in Values, oom \in BOOLEAN, thr \in 0 .. cap :
           CallInsert(x, i, v, oom, thr, cap, h)
    \/ \E i \in 0 .. cap : CallErase(x, i, h)
    \/ CallPopBack(x, h)

\* The calls that take another Vector object.
OnTwo(x, y) ==
    \/ \E oom \in BOOLEAN : CallCopyConstructor(x, y, oom)
    \/ CallMoveConstructor(x, y)
    \/ \E rhs \in {x, y}, oom \in BOOLEAN : CallCopyAssign(x, rhs, oom)
    \/ CallMoveAssign(x, y)
    \/ CallSwap(x, y)

\* A program with one Vector object.
Next == OnOne("A", MaxCap, TRUE)

Spec == Init /\ [][Next]_vars

\* A program with one Vector object that also inserts the Vector's own elements.
NextOwn ==
    \/ Next
    \/ \E i \in 0 .. OwnCap, j \in 0 .. OwnCap, oom \in BOOLEAN, thr \in 0 .. OwnCap :
           CallInsertOwn("A", i, j, oom, thr, OwnCap, TRUE)

SpecOwn == Init /\ [][NextOwn]_vars

\* ------------------------------------------ a program that uses RawMemory
\* RawMemory<T> x(capacity)
NewRawMemory(x, capacity) ==
    /\ ~raw[x].alive
    /\ IF capacity = 0
       THEN /\ raw' = [raw EXCEPT ![x] = [alive |-> TRUE, data |-> EmptyMemory]]
            /\ heap' = heap
       ELSE LET nb == NewBlock(heap)
            IN  /\ raw' = [raw EXCEPT ![x] = [alive |-> TRUE,
                                              data |-> [buf |-> nb, cap |-> capacity]]]
                /\ heap' = Allocate(Now, nb, capacity).heap
    /\ last' = Outcome("RawMemory", x, capacity, -1, "ok", Now)
    /\ UNCHANGED <<vec, move_path, fault, pushed>>

\* RawMemory<T> x(std::move(other))
MoveRawMemory(x, other) ==
    /\ ~raw[x].alive /\ raw[other].alive
    /\ LET d == RawMemoryMoveConstruct(raw[other].data)
       IN  raw' = [raw EXCEPT ![x] = [alive |-> TRUE, data |-> d[1]], ![other].data = d[2]]
    /\ last' = Outcome("RawMemoryMove", x, -1, -1, "ok", Now)
    /\ UNCHANGED <<heap, vec, move_path, fault, pushed>>

\* x = std::move(rhs)
MoveAssignRawMemory(x, rhs) ==
    /\ raw[x].alive /\ raw[rhs].alive
    /\ LET d == RawMemoryMoveAssign(raw[x].data, raw[rhs].data)
       IN  raw' = [raw EXCEPT ![x].data = d[1], ![rhs].data = d[2]]
    /\ last' = Outcome("RawMemoryMoveAssign", x, -1, -1, "ok", Now)
    /\ UNCHANGED <<heap, vec, move_path, fault, pushed>>

\* x.Swap(other)
SwapRawMemory(x, other) ==
    /\ raw[x].alive /\ raw[other].alive
    /\ LET d == RawMemorySwap(raw[x].data, raw[other].data)
       IN  raw' = [raw EXCEPT ![x].data = d[1], ![other].data = d[2]]
    /\ last' = Outcome("RawMemorySwap", x, -1, -1, "ok", Now)
    /\ UNCHANGED <<heap, vec, move_path, fault, pushed>>

\* ~RawMemory() of x
DestroyRawMemory(x) ==
    /\ raw[x].alive
    /\ raw' = [raw EXCEPT ![x] = NoMemory]
    /\ heap' = Deallocate(Now, raw[x].data.buf).heap
    /\ last' = Outcome("~RawMemory", x, -1, -1, "ok", Now)
    /\ UNCHANGED <<vec, move_path, fault, pushed>>

\* A program with two RawMemory objects.
NextRaw ==
    \E x \in Instances :
        \/ \E n \in 0 .. MaxCap : NewRawMemory(x, n)
        \/ MoveRawMemory(x, Other(x))
        \/ MoveAssignRawMemory(x, Other(x))
        \/ SwapRawMemory(x, Other(x))
        \/ DestroyRawMemory(x)

SpecRaw == Init /\ [][NextRaw]_vars

\* A program with two Vector objects.
NextPair == \E x \in Instances : OnOne(x, PairCap, FALSE) \/ OnTwo(x, Other(x))

SpecPair == Init /\ [][NextPair]_vars

\* ------------------------------------------------------------ the claims
InsertAt(s, i, v) == SubSeq(s, 1, i) \o <<v>> \o SubSeq(s, i + 1, Len(s))

RemoveAt(s, i) == SubSeq(s, 1, i) \o SubSeq(s, i + 2, Len(s))

Max(a, b) == IF a >= b THEN a ELSE b

Returned(op) == last.op = op /\ last.res = "ok"

\* C1: after any sequence of public calls on the Vector objects of a program, within
\* their preconditions, Size() <= Capacity() for every object.
SizeWithinCapacity == \A x \in Instances : vec[x].size <= vec[x].data.cap

\* C1, witness: a copy assignment that needed a larger block left A full, beside B.
SizeWithinCapacityWitness ==
    /\ Returned("CopyAssign") /\ last.inst = "A" /\ last.dtor # {}
    /\ Alive("B") /\ vec["A"].size = 2 /\ vec["A"].data.cap = 2

\* C2: exactly the slots [0, size) of a Vector hold objects, every slot of
\* [size, capacity) is raw, and no call constructs on a live object or destroys a
\* slot that holds no object.
LifetimesMatchSize ==
    /\ \A x \in Instances : \A k \in 0 .. vec[x].data.cap - 1 :
           IsObject(Now, vec[x].data.buf, k) <=> k < vec[x].size
    /\ ~last.ctorOnLive
    /\ ~last.dtorOnRaw

\* C3: the values pushed with PushBack onto an empty Vector are its contents, in the
\* order pushed, and Size() is their number.
PushOrder ==
    pushed.valid => /\ vec["A"].size = Len(pushed.seq)
                    /\ Contents("A") = pushed.seq

\* C3, witness: on the copy path, two different values were pushed and the second
\* push grew the block.
PushOrderWitness ==
    /\ Returned("PushBack") /\ last.inst = "A" /\ ~move_path
    /\ last.calls = <<"EmplaceBack", "Emplace">>
    /\ pushed.valid /\ Len(pushed.seq) = 2 /\ pushed.seq[1] # pushed.seq[2]

\* C4: Emplace(begin() + i, v) leaves s[0..i), v, s[i..size), makes the size one
\* larger and returns the iterator to index i, for either transfer strategy and
\* whether or not the block was full.
EmplaceInserts ==
    [][Returned("Emplace")' =>
          /\ ContentsIn(heap', vec', last'.inst) = InsertAt(Contents(last'.inst), last'.idx, last'.val)
          /\ vec'[last'.inst].size = vec[last'.inst].size + 1
          /\ last'.ret = last'.idx]_vars

\* C5: Erase(begin() + i) leaves s[0..i), s[i+1..size), makes the size one smaller,
\* keeps the capacity and the block, and returns the iterator to index i.
EraseRemoves ==
    [][Returned("Erase")' =>
          /\ ContentsIn(heap', vec', last'.inst) = RemoveAt(Contents(last'.inst), last'.idx)
          /\ vec'[last'.inst].size = vec[last'.inst].size - 1
          /\ vec'[last'.inst].data = vec[last'.inst].data
          /\ last'.ret = last'.idx]_vars

\* C5, witness: Erase(begin()) returned on a Vector of three elements, leaving <<1, 0>>.
EraseRemovesWitness ==
    /\ Returned("Erase") /\ last.idx = 0
    /\ vec["A"].size = 2 /\ Contents("A") = <<1, 0>>

\* C6: Erase destroys exactly one object, the one in the vacated last slot (index
\* size - 1 before the decrement, which is the size after it), and touches no slot
\* from the old size on.
EraseDestroysLast ==
    Returned("Erase") => /\ last.dtor = {vec[last.inst].size}
                         /\ ~last.dtorOnRaw

\* C7: when a copy construction throws in the copy-path transfer of a reallocation
\* (Reserve, the growth of Emplace / EmplaceBack), the size, the capacity and the
\* contents are what they were, and no object is left alive in the new block when
\* it is released.
ThrowRollsBack ==
    [][last'.res = "throw" => /\ heap' = heap
                              /\ vec' = vec
                              /\ last'.leak = 0]_vars

\* What C8 asks of a call whose allocation fails: bad_alloc reaches the caller and
\* the heap and the Vector objects are what they were.
FailsUnchanged(m) == m.exc = "bad_alloc" /\ m.heap = heap /\ m.vec = vec

\* C8: if the allocator fails in a call that requests storage (Reserve, Resize to a
\* larger size, the growth of Emplace / EmplaceBack / PushBack / Insert, a copy
\* assignment that needs a larger block), the failure reaches the caller and the
\* size, the capacity and the contents are what they were before the call.
AllocationFailureChangesNothing ==
    \A x \in Instances : Alive(x) /\ ~fault =>
        /\ \A n \in 0 .. MaxCap :
               n > vec[x].data.cap => /\ FailsUnchanged(Reserve(Now, x, n, TRUE, 0))
                                      /\ FailsUnchanged(Resize(Now, x, n, TRUE, 0))
        /\ Full(x) => \A v \in Values :
               /\ FailsUnchanged(PushBack(Now, x, v, TRUE, 0))
               /\ FailsUnchanged(EmplaceBack(Now, x, v, TRUE, 0))
               /\ \A i \in 0 .. vec[x].size :
                      /\ FailsUnchanged(Emplace(Now, x, i, v, TRUE, 0))
                      /\ FailsUnchanged(Insert(Now, x, i, v, TRUE, 0))
        /\ \A y \in Instances :
               Alive(y) /\ vec[y].size > vec[x].data.cap =>
                   FailsUnchanged(CopyAssign(Now, x, y, "tmp", TRUE))

\* C8, witness: a copy assignment to A, which holds one element, from B, which
\* holds two, ended with bad_alloc.
AllocationFailureWitness ==
    /\ last.op = "CopyAssign" /\ last.res = "bad_alloc" /\ last.inst = "A"
    /\ vec["A"].size = 1 /\ vec["A"].data.cap = 1 /\ vec["B"].size = 2

\* C9: PushBack, EmplaceBack, Insert and Emplace on a full Vector leave the capacity
\* max(1, 2 * old capacity), and on a Vector that is not full leave it unchanged.
GrowthDoubles ==
    [][last'.op \in {"PushBack", "EmplaceBack", "Insert", "Emplace"} /\ last'.res = "ok" =>
          vec'[last'.inst].data.cap =
              (IF Full(last'.inst) THEN Max(1, 2 * vec[last'.inst].data.cap)
               ELSE vec[last'.inst].data.cap)]_vars

\* C9, witness: an Insert at begin() into a full block of one slot doubled it.
GrowthDoublesWitness ==
    /\ Returned("Insert") /\ last.idx = 0 /\ last.calls = <<"Emplace">>
    /\ last.dtor = {0} /\ vec["A"].data.cap = 2 /\ vec["A"].size = 2

\* C10: Reserve(n) with n > Capacity() leaves Capacity() >= n, the size unchanged
\* and the elements [0, size) as they were, in their order, on either path.
ReserveKeepsElements ==
    [][Returned("Reserve")' /\ last'.idx > vec[last'.inst].data.cap =>
          /\ vec'[last'.inst].data.cap >= last'.idx
          /\ vec'[last'.inst].size = vec[last'.inst].size
          /\ ContentsIn(heap', vec', last'.inst) = Contents(last'.inst)]_vars

\* C10, witness: on the copy path, Reserve(3) moved two different elements to a
\* new block of three slots.
ReserveKeepsElementsWitness ==
    /\ Returned("Reserve") /\ last.idx = 3 /\ last.dtor = {0, 1} /\ ~move_path
    /\ vec["A"].data.cap = 3 /\ Contents("A") = <<0, 1>>

\* C11: Reserve(n) with n <= Capacity() does nothing: the capacity, the size, the
\* contents and the block are what they were, and no block is requested (the call
\* does the same under an allocator that would fail).
ReserveWithinCapacityNoOp ==
    [][Returned("Reserve")' /\ last'.idx <= vec[last'.inst].data.cap =>
          /\ heap' = heap
          /\ vec' = vec
          /\ last'.dtor = {} /\ last'.leak = 0
          /\ Reserve(Now, last'.inst, last'.idx, TRUE, 0) = Now]_vars

\* C11, witness: Reserve(1) returned on a Vector of two different elements in a
\* block of two slots.
ReserveWithinCapacityWitness ==
    /\ Returned("Reserve") /\ last.idx = 1
    /\ vec["A"].data.cap = 2 /\ Contents("A") = <<0, 1>>

Defaults(n) == [k \in 1 .. n |-> Default]

\* C12: after Resize(n) the size is n; growing keeps the contents and appends
\* n - size value-initialised elements; shrinking keeps the prefix [0, n) and the
\* capacity (and the block).
ResizeSetsSize ==
    [][Returned("Resize")' =>
          LET x == last'.inst
              n == last'.idx
              s == Contents(x)
          IN  /\ vec'[x].size = n
              /\ n >= Len(s) => ContentsIn(heap', vec', x) = s \o Defaults(n - Len(s))
              /\ n < Len(s) => /\ ContentsIn(heap', vec', x) = SubSeq(s, 1, n)
                               /\ vec'[x].data = vec[x].data]_vars

\* C12, witness: Resize(3) returned on a Vector that held the one element 1 in a
\* block of one slot.
ResizeSetsSizeWitness ==
    /\ Returned("Resize") /\ last.idx = 3 /\ last.dtor = {0}
    /\ vec["A"].data.cap = 3 /\ Contents("A") = <<1, Default, Default>>

\* C13: from every state of a Vector, Emplace(end(), v) and EmplaceBack(v) end the
\* same way (both return, or both throw the same exception), leave the same size,
\* capacity and contents (the same heap), and where they return, the iterator of
\* the first and the reference of the second designate the new last element.
EmplaceAtEndIsEmplaceBack ==
    \A x \in Instances : Alive(x) /\ ~fault =>
        \A v \in Values, oom \in BOOLEAN, thr \in 0 .. vec[x].size :
            LET e == Emplace(Now, x, vec[x].size, v, oom, thr)
                b == EmplaceBack(Now, x, v, oom, thr)
            IN  /\ e.exc = b.exc
                /\ e.heap = b.heap
                /\ e.vec = b.vec
                /\ e.exc = "none" => /\ e.ret = b.ret
                                     /\ e.ret = vec[x].size
                                     /\ e.vec[x].size = vec[x].size + 1

\* C13, witness: Emplace(end(), 1) returned on a Vector that was not full and held
\* an element: it handed the call to EmplaceBack.
EmplaceAtEndWitness ==
    /\ Returned("Emplace") /\ last.calls = <<"Emplace", "EmplaceBack">>
    /\ last.val = 1 /\ last.idx = 1 /\ Contents("A") = <<0, 1>>

\* The step left the size, the capacity and the slots of the Vector y as they were.
Untouched(y) ==
    /\ vec'[y].alive = vec[y].alive
    /\ vec'[y].size = vec[y].size
    /\ vec'[y].data.cap = vec[y].data.cap
    /\ (vec'[y].data.buf = NullBuf) = (vec[y].data.buf = NullBuf)
    /\ vec[y].data.buf # NullBuf => heap'[vec'[y].data.buf] = heap[vec[y].data.buf]

\* Two Vectors do not hold the same block.
NoSharedBlock(v) ==
    \A x, y \in Instances :
        x # y /\ v[x].data.buf # NullBuf => v[x].data.buf # v[y].data.buf

\* C14: a Vector copy-constructed from another has its size, a capacity equal to
\* that size and its contents, in a block of its own, and the other is as it was;
\* and no later call on one Vector alone (Reserve, Resize, PushBack, EmplaceBack,
\* Emplace, Insert, Erase, PopBack, construction, destruction), however it ends,
\* changes the size, the capacity or the contents of the other.
CopyIsIndependent ==
    [][/\ Returned("VectorCopy")' =>
              LET x == last'.inst
                  y == Other(x)
              IN  /\ vec'[x].size = vec[y].size
                  /\ vec'[x].data.cap = vec[y].size
                  /\ ContentsIn(heap', vec', x) = Contents(y)
                  /\ Untouched(y)
       /\ last'.op = "-" => Untouched(Other(last'.inst))
       /\ NoSharedBlock(vec')]_vars

\* C14, witness: B was copy-constructed from A, which holds two different elements
\* in a block of two slots.
CopyIsIndependentWitness ==
    /\ Returned("VectorCopy") /\ last.inst = "B"
    /\ Contents("A") = <<1, 0>> /\ Contents("B") = <<1, 0>>
    /\ vec["B"].data.cap = 2 /\ vec["B"].data.buf # vec["A"].data.buf

\* C15: after move-constructing a Vector from another, the source has size 0 and
\* owns no storage (null buffer, capacity 0), and the new Vector holds the source's
\* contents, size and capacity in the source's block; no element is touched.
MoveConstructionSteals ==
    [][Returned("VectorMove")' =>
          LET x == last'.inst
              y == Other(x)
          IN  /\ vec'[y] = [alive |-> TRUE, data |-> EmptyMemory, size |-> 0]
              /\ vec'[x] = [alive |-> TRUE, data |-> vec[y].data, size |-> vec[y].size]
              /\ ContentsIn(heap', vec', x) = Contents(y)
              /\ heap' = heap]_vars

\* C15, witness: B was move-constructed from A, which held two different elements
\* in a block of two slots.
MoveConstructionWitness ==
    /\ Returned("VectorMove") /\ last.inst = "B"
    /\ vec["A"].size = 0 /\ vec["A"].data = EmptyMemory
    /\ Contents("B") = <<1, 0>> /\ vec["B"].data.cap = 2

\* Exactly the slots [0, size) of the block of x hold objects.
Clean(x) ==
    \A k \in 0 .. vec[x].data.cap - 1 : IsObject(Now, vec[x].data.buf, k) <=> k < vec[x].size

\* C16: after lhs = rhs the size of lhs is the size of rhs, its contents are those
\* of rhs element for element, and rhs is as it was.  Where rhs.size <= lhs.capacity
\* lhs keeps its block and its capacity and exactly the surplus elements
\* [rhs.size, lhs.size) are destroyed; otherwise lhs gets a new block of rhs.size
\* slots, and its old elements are destroyed and its old block released.
\* Self-assignment changes nothing.  Where both Vectors held objects in exactly
\* their slots [0, size), the shortfall is constructed in raw slots, nothing raw is
\* read, assigned to or destroyed, and no object is released with a block.
CopyAssignmentCopies ==
    [][/\ Returned("CopyAssignSelf")' => heap' = heap /\ vec' = vec
       /\ Returned("CopyAssign")' =>
              LET x == last'.inst
                  y == Other(x)
                  old == vec[x].data.buf
              IN  /\ vec'[x].size = vec[y].size
                  /\ ContentsIn(heap', vec', x) = Contents(y)
                  /\ vec'[y] = vec[y]
                  /\ vec[y].data.buf # NullBuf => heap'[vec[y].data.buf] = heap[vec[y].data.buf]
                  /\ Clean(x) /\ Clean(y) =>
                         ~last'.ctorOnLive /\ ~last'.dtorOnRaw /\ ~last'.ub /\ last'.leak = 0
                  /\ IF vec[y].size <= vec[x].data.cap
                     THEN /\ vec'[x].data = vec[x].data
                          /\ last'.dtor = vec[y].size .. vec[x].size - 1
                     ELSE /\ vec'[x].data.cap = vec[y].size
                          /\ vec'[x].data.buf \notin {NullBuf, old, vec[y].data.buf}
                          /\ last'.dtor = 0 .. vec[x].size - 1
                          /\ old # NullBuf => heap'[old] = <<>>]_vars

\* C16, witness: A, in a block of two slots, was assigned B, which holds two
\* different elements: the copy was done in place and destroyed nothing.
CopyAssignmentWitness ==
    /\ Returned("CopyAssign") /\ last.inst = "A" /\ last.dtor = {}
    /\ Contents("A") = <<1, 0>> /\ Contents("B") = <<1, 0>>
    /\ vec["A"].data.cap = 2 /\ vec["B"].data.cap = 2

\* C17: every move of a RawMemory handle, by move construction or by move
\* assignment, whatever the target held, gives the target the block and the capacity
\* of the source and leaves the source with a null buffer and capacity 0.
RawMemoryMoveEmptiesSource ==
    [][last'.op \in {"RawMemoryMove", "RawMemoryMoveAssign"} =>
          LET x == last'.inst
              y == Other(x)
          IN  /\ raw'[x].data = raw[y].data
              /\ raw'[y].data = EmptyMemory]_vars

\* C18: in every state of a program with several Vectors, every allocated block is
\* held by exactly one live Vector, and every buffer a Vector holds is an allocated
\* block of its capacity: no two Vectors hold the same block, no block outlives its
\* owner, and no Vector holds a block that was released (so that none is released
\* twice).
BlocksOwnedOnce ==
    /\ \A b \in Blocks :
           heap[b] # <<>> =>
               Cardinality({x \in DOMAIN vec : vec[x].alive /\ vec[x].data.buf = b}) = 1
    /\ \A x \in DOMAIN vec :
           /\ ~vec[x].alive => vec[x].data = EmptyMemory
           /\ vec[x].data.buf = NullBuf => vec[x].data.cap = 0
           /\ vec[x].data.buf # NullBuf => /\ heap[vec[x].data.buf] # <<>>
                                           /\ Len(heap[vec[x].data.buf]) = vec[x].data.cap

\* C18, witness: a move assignment exchanged the blocks of A and B, which hold
\* elements in blocks of different capacity.
BlocksOwnedOnceWitness ==
    /\ Returned("MoveAssign")
    /\ vec["A"].data.cap = 2 /\ vec["B"].data.cap = 1
    /\ vec["A"].size = 2 /\ vec["B"].size = 1
    /\ vec["A"].data.buf # vec["B"].data.buf

\* C19: Insert(begin() + i, v[j]), with the value passed as a reference to the
\* Vector's own element j, leaves at index i a copy of the value the element j had
\* before the call, whether the block grows, the element is appended without growth
\* or it is inserted in the middle without growth.
InsertOwnElement ==
    [][Returned("InsertOwn")' =>
          ContentsIn(heap', vec', last'.inst)[last'.idx + 1] = Contents(last'.inst)[last'.val + 1]]_vars

\* C20: every call of Emplace or EmplaceBack (and of Insert and PushBack, which are
\* calls of them) ends, by a return or by an exception, after at most one
\* delegation: EmplaceBack enters Emplace exactly when the Vector is full, Emplace
\* enters EmplaceBack exactly when it appends to a Vector that is not full, and the
\* function entered second enters no other.  A call on a Vector whose slots [0, size)
\* alone hold objects has no undefined behaviour to end it.
DelegationAtMostOnce ==
    [][LET x == last'.inst
           c == last'.calls
       IN  /\ last'.op \in {"EmplaceBack", "PushBack"} =>
                  c = (IF Full(x) THEN <<"EmplaceBack", "Emplace">> ELSE <<"EmplaceBack">>)
           /\ last'.op \in {"Emplace", "Insert"} =>
                  /\ c \in {<<"Emplace">>, <<"Emplace", "EmplaceBack">>}
                  /\ Full(x) => c = <<"Emplace">>
                  /\ last'.res = "ok" =>
                         (c = <<"Emplace", "EmplaceBack">> <=> ~Full(x) /\ last'.idx = vec[x].size)
           /\ last'.op \in {"EmplaceBack", "PushBack", "Emplace", "Insert"} =>
                  /\ last'.res \in {"ok", "bad_alloc", "throw", "fault"}
                  /\ Clean(x) => last'.res # "fault"]_vars

\* C20, witness: EmplaceBack on a full Vector of one element entered Emplace, which
\* grew the block and returned.
DelegationWitness ==
    /\ Returned("EmplaceBack") /\ last.calls = <<"EmplaceBack", "Emplace">>
    /\ last.dtor = {0} /\ vec["A"].data.cap = 2 /\ vec["A"].size = 2

====
